---- MODULE Spec2Model ----
(***************************************************************************)
(* Model of globus/cli.py: the endpoint activation orchestrator            *)
(* (activate_endpoints_or_exit and its helpers), the transfer command,     *)
(* the task wait loop (wait_for_task_or_exit) and the hold resumer         *)
(* (release).                                                              *)
(*                                                                         *)
(* One command-line process runs at a time (pc = "done" between runs).     *)
(* Every call to the transfer service, to the operator's terminal or to    *)
(* the scheduler is one step of the process.  The transfer service, the    *)
(* operator and the scheduler are the environment.                         *)
(***************************************************************************)
EXTENDS Integers, Sequences, FiniteSets, TLC

\* ------------------------------------------------------------------ bounds

\* Largest value of --attempts that is tried (the smallest is -1).
MaxAttempts == 3

\* Longest list of transfer specifications given to one transfer command.
MaxTransfers == 2

\* Number of transfer jobs in the scheduler's queue.
NumJobs == 2

\* ------------------------------------------------------------- value sets

Endpoints == {"e1", "e2"}

Jobs == 1 .. NumJobs

\* The process is not running as a scheduler job (started from a shell).
NoJob == 0

\* Activation status of an endpoint, as the transfer service reports it.
Statuses == {"ACTIVE", "AUTO_ACTIVATABLE", "NEEDS_MANUAL"}

\* The endpoints on the command line of each transfer job: a job record is one
\* invocation, so its arguments never change.  Even jobs copy within one
\* endpoint (source = destination).
JobEndpoints(j) == IF j % 2 = 1 THEN <<"e1", "e2">> ELSE <<"e1", "e1">>

\* Values of --attempts: click's type=int sets no lower bound.
AttemptChoices == -1 .. MaxAttempts

\* What one task_wait call can do: return True, return False, or raise
\* globus_sdk.TransferAPIError.
PollResults == {"done", "notdone", "error"}

\* Completion state of the task at the transfer service: still running, or
\* ended in one of the two ways.
TaskStates == {"ACTIVE", "SUCCEEDED", "FAILED"}

\* Transfer specifications, as strings of characters.  "a" stands for any
\* character of a path other than "/" and ":".
SpecFile == <<"a", ":", "a">>
SpecDir == <<"a", "/", ":", "a", "/">>
SpecSrcDir == <<"a", "/", ":", "a">>
SpecDstDir == <<"a", ":", "a", "/">>
SpecNoColon == <<"a">>
SpecTwoColons == <<"a", ":", "a", ":", "a">>
SpecEmptySrc == <<":", "a">>
SpecEmptyDst == <<"a", "/", ":">>

TransferSpecs ==
    {SpecFile, SpecDir, SpecSrcDir, SpecDstDir,
     SpecNoColon, SpecTwoColons, SpecEmptySrc, SpecEmptyDst}

TransferLists == UNION {[1 .. n -> TransferSpecs] : n \in 0 .. MaxTransfers}

\* ---------------------------------------------------------------- state

VARIABLES
    status,          \* transfer service: activation status of each endpoint
    ad,              \* scheduler: the attributes ENDPOINT_ACTIVATION_REQUIRED_<idx> of each job
    held,            \* scheduler: the job is on hold
    cmd,             \* the command the process runs
    pc,              \* where the process is
    exit,            \* its exit code ("running" until it ends)
    interactive,     \* is_interactive() of the process
    self,            \* the job the process runs as (NoJob from a shell)
    refresh_token,   \* settings[AUTH].get(REFRESH_TOKEN) is not None
    endpoints,       \* argument of activate_endpoints_or_exit
    todo,            \* the list the running activation loop iterates over
    unactivated,     \* the list the running activation loop builds
    i,               \* position of that loop in todo
    returned,        \* activate_endpoints_or_exit has returned True
    transfers,       \* transfer: the specifications on the command line
    tdata,           \* transfer: items added to the TransferData
    wait,            \* transfer: --wait
    max_attempts,    \* wait_for_task_or_exit: max_attempts
    attempts,        \* wait_for_task_or_exit: attempts
    done,            \* wait_for_task_or_exit: done
    errored,         \* wait_for_task_or_exit: errored
    task,            \* transfer service: completion state of the task waited for
    printed,         \* the task id was written to stdout
    ad_idx,          \* release: position in jobs
    manual_endpoints,\* release: endpoint -> attribute key, as a sequence of pairs
    calls            \* calls made by the process to the service and the scheduler

vars ==
    <<status, ad, held, cmd, pc, exit, interactive, self, refresh_token, endpoints,
      todo, unactivated, i, returned, transfers, tdata, wait, max_attempts,
      attempts, done, errored, task, printed, ad_idx, manual_endpoints, calls>>

envVars == <<status, ad>>
actVars == <<endpoints, todo, unactivated, i, returned>>
xferVars == <<transfers, tdata, wait, printed>>
waitVars == <<max_attempts, attempts, done, errored, task>>
relVars == <<ad_idx, manual_endpoints>>
runVars == <<cmd, interactive, self, refresh_token>>

\* ------------------------------------------------------------ exit codes

ExitOk == "OK"
AUTHORIZATION_ERROR == "AUTHORIZATION_ERROR"
ENDPOINT_ACTIVATION_ERROR == "ENDPOINT_ACTIVATION_ERROR"
INVALID_TRANSFER_SPECIFICATION_ERROR == "INVALID_TRANSFER_SPECIFICATION_ERROR"
WAIT_TASK_TIMEOUT == "WAIT_TASK_TIMEOUT"
WAIT_TASK_ERROR == "WAIT_TASK_ERROR"
\* EndpointInfo.get_or_exit could not fetch the endpoint.
ENDPOINT_INFO_ERROR == "ENDPOINT_INFO_ERROR"
\* click.Abort: the operator pressed ctrl-c at a prompt.
Aborted == "ABORTED"
\* An exception nothing catches: Python prints a traceback and exits 1.
UnhandledException == "UNHANDLED_EXCEPTION"

\* ------------------------------------------------- transfer specifications

\* str.split(":") : the pieces of t between the colons (always at least one).
RECURSIVE SplitColon(_)
SplitColon(t) ==
    IF \A k \in 1 .. Len(t) : t[k] # ":"
    THEN <<t>>
    ELSE LET c == CHOOSE k \in 1 .. Len(t) :
                      t[k] = ":" /\ \A m \in 1 .. k - 1 : t[m] # ":"
         IN <<SubSeq(t, 1, c - 1)>> \o SplitColon(SubSeq(t, c + 1, Len(t)))

\* path[-1] == "/" ; the caller makes sure the path is not empty.
EndsWithSlash(path) == path[Len(path)] = "/"

\* One turn of the loop over transfers: what happens to specification t.
\*   "unpack"  : src, dst = t.split(":") raises ValueError
\*   "index"   : src[-1] or dst[-1] raises IndexError
\*   "invalid" : error(..., INVALID_TRANSFER_SPECIFICATION_ERROR)
\*   "dir", "file" : tdata.add_item
ClassifySpec(t) ==
    LET parts == SplitColon(t) IN
    IF Len(parts) # 2 THEN "unpack"
    ELSE IF Len(parts[1]) = 0 \/ Len(parts[2]) = 0 THEN "index"
    ELSE IF EndsWithSlash(parts[1]) /\ EndsWithSlash(parts[2]) THEN "dir"
    ELSE IF EndsWithSlash(parts[1]) \/ EndsWithSlash(parts[2]) THEN "invalid"
    ELSE "file"

\* The item tdata.add_item appends for an accepted specification.
ItemOf(t) ==
    LET parts == SplitColon(t) IN
    [src |-> parts[1], dst |-> parts[2], recursive |-> ClassifySpec(t) = "dir"]

\* The whole loop "for t in transfers": it stops at the first specification
\* that raises or is rejected; items holds what was added before that.
RECURSIVE ParseFrom(_, _, _)
ParseFrom(ts, k, items) ==
    IF k > Len(ts) THEN [result |-> "ok", items |-> items]
    ELSE LET c == ClassifySpec(ts[k]) IN
         IF c \in {"dir", "file"}
         THEN ParseFrom(ts, k + 1, Append(items, ItemOf(ts[k])))
         ELSE [result |-> c, items |-> items]

ParseTransfers(ts) == ParseFrom(ts, 1, <<>>)

\* ------------------------------------------------------------ job records

\* Line 829 without classad.quote: the endpoint's identifier as bare text.
ClassAdQuote_Bare(e) == <<e>>

\* classad.quote(endpoint): the text of a ClassAd string literal.
ClassAdQuote(e) == <<"\"", e, "\"">>

\* Line 740 with the text quoted like the endpoint of line 829: the attribute
\* becomes the string "Undefined".
UndefinedText_Quoted == <<"\"", "Undefined", "\"">>

\* The text release writes: the ClassAd keyword Undefined, not quoted.
UndefinedText == <<"Undefined">>

\* classad.Value.Undefined
UndefinedValue == "classad.Value.Undefined"

\* The value a stored attribute text evaluates to when the job is read.
ClassAdEval(text) ==
    IF Len(text) = 3 /\ text[1] = "\"" /\ text[3] = "\"" THEN text[2]
    ELSE UndefinedValue

\* Attribute name ENDPOINT_ACTIVATION_REQUIRED_<idx>; the model keeps idx.
ActivationKey(idx) == idx

\* set_job_attr(key, text) on record rec.  Records other than the transfer
\* jobs of the queue are not kept: such a write shows only in calls.
SetJobAttr(a, rec, key, text) ==
    IF rec \in DOMAIN a
    THEN [a EXCEPT ![rec] = [k \in DOMAIN a[rec] \cup {key} |->
                                 IF k = key THEN text ELSE a[rec][k]]]
    ELSE a

\* The value of attribute key of record rec before a write: "absent" when the
\* record has no such attribute (or is not a job of the queue).
ValueBefore(a, rec, key) ==
    IF rec \in DOMAIN a /\ key \in DOMAIN a[rec]
    THEN ClassAdEval(a[rec][key])
    ELSE "absent"

\* The keys of job j in increasing order, as job.items() yields them.
RECURSIVE SortedKeys(_)
SortedKeys(S) ==
    IF S = {} THEN <<>>
    ELSE LET m == CHOOSE x \in S : \A y \in S : x <= y
         IN <<m>> \o SortedKeys(S \ {m})

\* dict insertion {v: k}: a later pair with the same endpoint replaces the
\* key and keeps the endpoint's place.
DictPut(d, v, k) ==
    IF \E n \in 1 .. Len(d) : d[n][1] = v
    THEN [n \in 1 .. Len(d) |-> IF d[n][1] = v THEN <<v, k>> ELSE d[n]]
    ELSE Append(d, <<v, k>>)

RECURSIVE DictFrom(_, _, _)
DictFrom(attrs, keys, d) ==
    IF keys = <<>> THEN d
    ELSE LET k == Head(keys)
             v == ClassAdEval(attrs[k])
         IN DictFrom(attrs, Tail(keys),
                     IF v # UndefinedValue THEN DictPut(d, v, k) ELSE d)

\* manual_endpoints of release: {v: k for k, v in job.items() if ...}
ManualEndpoints(attrs) == DictFrom(attrs, SortedKeys(DOMAIN attrs), <<>>)

DictKeys(d) == [n \in 1 .. Len(d) |-> d[n][1]]
DictValues(d) == [n \in 1 .. Len(d) |-> d[n][2]]

\* ------------------------------------------------------ transfer service

\* response["code"] of endpoint_autoactivate for an endpoint in status st.
AutoActivateCode(st) ==
    IF st = "NEEDS_MANUAL" THEN "AutoActivationFailed"
    ELSE IF st = "ACTIVE" THEN "AlreadyActivated"
    ELSE "AutoActivated.CachedCredential"

\* The status endpoint_autoactivate leaves the endpoint in.
AutoActivateStatus(st) == IF st = "AUTO_ACTIVATABLE" THEN "ACTIVE" ELSE st

\* EndpointInfo.is_active
IsActive(st) == st = "ACTIVE"

\* ----------------------------------------------------------------- Init

Init ==
    /\ status \in [Endpoints -> Statuses]
    /\ ad = [j \in Jobs |-> [k \in {} |-> UndefinedText]]
    /\ held = [j \in Jobs |-> FALSE]
    /\ cmd = "none"
    /\ pc = "done"
    /\ exit = ExitOk
    /\ interactive = TRUE
    /\ self = NoJob
    /\ refresh_token = TRUE
    /\ endpoints = <<>>
    /\ todo = <<>>
    /\ unactivated = <<>>
    /\ i = 1
    /\ returned = FALSE
    /\ transfers = <<>>
    /\ tdata = <<>>
    /\ wait = FALSE
    /\ max_attempts = 1
    /\ attempts = 0
    /\ done = FALSE
    /\ errored = FALSE
    /\ task = "ACTIVE"
    /\ printed = FALSE
    /\ ad_idx = 1
    /\ manual_endpoints = <<>>
    /\ calls = <<>>

\* ---------------------------------------------------- starting a process

\* A new process: cli() loads the settings, then the command's function runs.
Start(c, s, inter, tok, eps, at) ==
    /\ pc = "done"
    /\ cmd' = c
    /\ pc' = at
    /\ exit' = "running"
    /\ interactive' = inter
    /\ self' = s
    /\ refresh_token' = tok
    /\ endpoints' = eps
    /\ todo' = <<>>
    /\ unactivated' = <<>>
    /\ i' = 1
    /\ returned' = FALSE
    /\ transfers' = <<>>
    /\ tdata' = <<>>
    /\ wait' = FALSE
    /\ attempts' = 0
    /\ done' = FALSE
    /\ errored' = FALSE
    /\ printed' = FALSE
    /\ ad_idx' = 1
    /\ manual_endpoints' = <<>>
    /\ calls' = <<>>
    /\ UNCHANGED <<envVars, held>>

\* sys.exit(code), or the command's function returning (code ExitOk).
Exit(code) ==
    /\ pc' = "done"
    /\ exit' = code

\* Lines 76-77, on_exit_hold = ExitCode =!= 0: when the process of a job ends
\* with another exit code than 0, the scheduler puts the job on hold.
OnExitHold(h, p, s, x) ==
    IF p = "done" /\ s \in Jobs /\ x # ExitOk THEN [h EXCEPT ![s] = TRUE] ELSE h

\* The scheduler's part of every step of the process.
Scheduler == held' = OnExitHold(held, pc', self', exit')

\* globus transfer <src> <dst> ..., from a shell (s = NoJob) or as job s.  A
\* job has no terminal, and its endpoints are those of its submit description.
StartTransfer(s, inter, tok, src, dst) ==
    /\ s \in Jobs => ~inter /\ ~held[s] /\ <<src, dst>> = JobEndpoints(s)
    /\ Start("transfer", s, inter, tok, <<src, dst>>, "get_client")
    /\ UNCHANGED <<max_attempts, task>>

\* globus activate <endpoint>, from a shell.
StartActivate(inter, tok, e) ==
    /\ Start("activate", NoJob, inter, tok, <<e>>, "get_client")
    /\ UNCHANGED <<max_attempts, task>>

\* globus wait <task_id> --attempts n, from a shell; ts is the state the task
\* is in by then.
StartWait(inter, tok, n, ts) ==
    /\ Start("wait", NoJob, inter, tok, <<>>, "get_client")
    /\ max_attempts' = n
    /\ task' = ts

\* globus release, from a shell.
StartRelease(inter, tok) ==
    /\ Start("release", NoJob, inter, tok, <<>>, "rel_scan")
    /\ UNCHANGED <<max_attempts, task>>

\* ------------------------------------------- get_transfer_client_or_exit

\* The position after the client is made, for the commands that make it first.
AfterClient(c) ==
    IF c = "transfer" THEN "parse"
    ELSE IF c = "activate" THEN "act_query"
    ELSE "wait_loop"

GetClient ==
    /\ pc = "get_client"
    /\ IF refresh_token
       THEN /\ pc' = AfterClient(cmd)
            /\ exit' = exit
       ELSE Exit(AUTHORIZATION_ERROR)
    /\ UNCHANGED <<envVars, runVars, actVars, xferVars, waitVars, relVars, calls>>
    /\ Scheduler

\* ------------------------------------------------- transfer: lines 591-604

\* The exit code of the transfer command for each way the loop can stop.
ParseExit(result) ==
    IF result = "invalid" THEN INVALID_TRANSFER_SPECIFICATION_ERROR
    ELSE UnhandledException

\* Line 606 left out: the transfer is submitted right after the loop.
AfterParse_NoActivation == "submit"

\* Line 606: activate_endpoints_or_exit is what follows the loop.
AfterParse == "act_query"

Parse(ts) ==
    /\ pc = "parse"
    /\ transfers' = ts
    /\ LET r == ParseTransfers(ts) IN
       /\ tdata' = r.items
       /\ IF r.result = "ok"
          THEN pc' = AfterParse /\ exit' = exit
          ELSE Exit(ParseExit(r.result))
    /\ UNCHANGED <<envVars, runVars, actVars, wait, printed, waitVars, relVars, calls>>
    /\ Scheduler

\* ------------------------------------------- activate_endpoints_or_exit

\* Line 781 without the filter: every endpoint goes on to the fallback chain.
NeedsActivation_Always(st) == TRUE

\* Line 781: the endpoint goes into unactivated_endpoints.
NeedsActivation(st) == ~IsActive(st)

\* Line 803 with the response code misspelt: no response is taken as a failure.
AutoActivationFailed_Misspelt(code) == code = "AutoActivationFail"

\* Line 803 with the test negated: the endpoints that were activated stay.
AutoActivationFailed_Negated(code) == code # "AutoActivationFailed"

\* Line 803: the endpoint stays in the list activate_endpoints_automatically
\* returns.
AutoActivationFailed(code) == code = "AutoActivationFailed"

\* Line 786: the command fails with ENDPOINT_ACTIVATION_ERROR.
ActivationFailed(u) == Len(u) > 0

\* Line 828 without the index: every endpoint gets the same attribute.
ManualKeyIndex_NoIndex(idx) == 0

\* Line 828: the index of the attribute written for the endpoint at position
\* idx of enumerate(endpoints).
ManualKeyIndex(idx) == idx

\* Where the process goes, and with which lists, when a loop has ended.
Step(p, t, u, x) == [pc |-> p, todo |-> t, unactivated |-> u, exit |-> x]

\* activate_endpoints_manually, called with t, has returned u: release drops
\* the value (line 738); activate_endpoints_or_exit fails, or goes on to
\* line 791.  (todo and unactivated keep the call's argument and result.)
AfterManual(c, t, u) ==
    IF c = "release" THEN Step("rel_reset", t, u, "running")
    ELSE IF ActivationFailed(u)
    THEN Step("done", t, u, ENDPOINT_ACTIVATION_ERROR)
    ELSE Step("act_expiry", t, u, "running")

\* Line 786 moved before line 784: the command fails as soon as an
\* auto-activation was rejected.
AfterAuto_FailFast(c, u) ==
    IF u = <<>> THEN AfterManual(c, <<>>, <<>>)
    ELSE Step("done", u, u, ENDPOINT_ACTIVATION_ERROR)

\* activate_endpoints_automatically has returned u (line 784 follows).
AfterAuto(c, u) ==
    IF u = <<>> THEN AfterManual(c, <<>>, <<>>) ELSE Step("man_info", u, <<>>, "running")

\* The list comprehension of line 780 has produced u (line 783 follows).
AfterQuery(c, u) ==
    IF u = <<>> THEN AfterAuto(c, <<>>) ELSE Step("act_auto", u, <<>>, "running")

Goto(k) ==
    /\ pc' = k.pc
    /\ todo' = k.todo
    /\ unactivated' = k.unactivated
    /\ exit' = k.exit
    /\ i' = 1

\* The loop over list goes to its next element, or ends and continues with k.
NextOr(list, u, k) ==
    IF i < Len(list)
    THEN /\ i' = i + 1
         /\ unactivated' = u
         /\ UNCHANGED <<pc, todo, exit>>
    ELSE Goto(k)

\* EndpointInfo.get_or_exit failed to fetch the endpoint and exited.
InfoFailed ==
    /\ Exit(ENDPOINT_INFO_ERROR)
    /\ UNCHANGED <<envVars, runVars, actVars, xferVars, waitVars, relVars, calls>>

\* Lines 780-782, one endpoint: EndpointInfo.get_or_exit(...).is_active
ActQuery(ok) ==
    /\ pc = "act_query"
    /\ IF ok
       THEN LET e == endpoints[i]
                u == IF NeedsActivation(status[e])
                     THEN Append(unactivated, e) ELSE unactivated
            IN /\ NextOr(endpoints, u, AfterQuery(cmd, u))
               /\ UNCHANGED <<envVars, runVars, endpoints, returned, xferVars,
                              waitVars, relVars, calls>>
       ELSE InfoFailed
    /\ Scheduler

\* Lines 800-804, one endpoint: transfer_client.endpoint_autoactivate
ActAuto ==
    /\ pc = "act_auto"
    /\ LET e == todo[i]
           code == AutoActivateCode(status[e])
           u == IF AutoActivationFailed(code)
                THEN Append(unactivated, e) ELSE unactivated
       IN /\ status' = [status EXCEPT ![e] = AutoActivateStatus(status[e])]
          /\ calls' = Append(calls, <<"endpoint_autoactivate", e>>)
          /\ NextOr(todo, u, AfterAuto(cmd, u))
    /\ UNCHANGED <<ad, runVars, endpoints, returned, xferVars, waitVars, relVars>>
    /\ Scheduler

\* ------------------------------------------ activate_endpoints_manually

\* The record of a set_job_attr call: the job, the attribute's index, the value
\* the text evaluates to, and the value the attribute had before.
SetCall(a, rec, key, text) ==
    <<"set_job_attr", rec, key, ClassAdEval(text), ValueBefore(a, rec, key)>>

\* Lines 811-816 and 823-831, one endpoint: the endpoint's id is fetched for
\* the URL; with a terminal the loop of line 817 follows, without one the
\* attribute is written and the endpoint is returned.
ManInfo(ok) ==
    /\ pc = "man_info"
    /\ IF ok
       THEN LET e == todo[i]
                key == ActivationKey(ManualKeyIndex(i - 1))
                u == Append(unactivated, e)
            IN IF interactive
               THEN /\ pc' = "man_check"
                    /\ UNCHANGED <<envVars, runVars, actVars, xferVars, waitVars,
                                   relVars, calls, exit>>
               ELSE /\ ad' = SetJobAttr(ad, self, key, ClassAdQuote(e))
                    /\ calls' = Append(calls, SetCall(ad, self, key, ClassAdQuote(e)))
                    /\ NextOr(todo, u, AfterManual(cmd, todo, u))
                    /\ UNCHANGED <<status, runVars, endpoints, returned, xferVars,
                                   waitVars, relVars>>
       ELSE InfoFailed
    /\ Scheduler

\* Line 817: while not EndpointInfo.get_or_exit(...).is_active
ManCheck(ok) ==
    /\ pc = "man_check"
    /\ IF ok
       THEN /\ IF NeedsActivation(status[todo[i]])
               THEN /\ pc' = "man_prompt"
                    /\ UNCHANGED <<todo, unactivated, i, exit>>
               ELSE IF i < Len(todo)
               THEN /\ pc' = "man_info"
                    /\ i' = i + 1
                    /\ UNCHANGED <<todo, unactivated, exit>>
               ELSE Goto(AfterManual(cmd, todo, unactivated))
            /\ UNCHANGED <<envVars, runVars, endpoints, returned, xferVars,
                           waitVars, relVars, calls>>
       ELSE InfoFailed
    /\ Scheduler

\* The log of calls keeps one entry for all the prompts about one endpoint.
LogOnce(log, c) ==
    IF \E n \in 1 .. Len(log) : log[n] = c THEN log ELSE Append(log, c)

\* Lines 817-822 with an if in place of the while: after ENTER the status is
\* not tested again and the loop over endpoints goes on.
ManPrompt_NoRecheck(key) ==
    /\ pc = "man_prompt"
    /\ calls' = LogOnce(calls, <<"confirm", todo[i]>>)
    /\ IF key = "enter"
       THEN IF i < Len(todo)
            THEN /\ pc' = "man_info"
                 /\ i' = i + 1
                 /\ UNCHANGED <<todo, unactivated, exit>>
            ELSE Goto(AfterManual(cmd, todo, unactivated))
       ELSE /\ Exit(Aborted)
            /\ UNCHANGED <<todo, unactivated, i>>
    /\ UNCHANGED <<envVars, runVars, endpoints, returned, xferVars, waitVars, relVars>>
    /\ Scheduler

\* Lines 818-822: the message and click.confirm.  The operator presses ENTER
\* (the loop tests the status again) or ctrl-c (click ends the process).
ManPrompt(key) ==
    /\ pc = "man_prompt"
    /\ calls' = LogOnce(calls, <<"confirm", todo[i]>>)
    /\ IF key = "enter"
       THEN pc' = "man_check" /\ exit' = exit
       ELSE Exit(Aborted)
    /\ UNCHANGED <<envVars, runVars, actVars, xferVars, waitVars, relVars>>
    /\ Scheduler

\* Lines 791-795: the expiry of each endpoint is fetched and logged, then the
\* function returns True: transfer goes on to submit, activate ends.
ActExpiry(ok) ==
    /\ pc = "act_expiry"
    /\ IF ok
       THEN /\ returned' = TRUE
            /\ IF cmd = "transfer"
               THEN pc' = "submit" /\ exit' = exit
               ELSE Exit(ExitOk)
            /\ UNCHANGED <<envVars, runVars, endpoints, todo, unactivated, i,
                           xferVars, waitVars, relVars, calls>>
       ELSE InfoFailed
    /\ Scheduler

\* ------------------------------------------------- transfer: lines 608-620

\* Line 620 moved before line 611: the task id is printed as soon as the
\* transfer is submitted, before the wait.
Submit_PrintFirst(w, n) ==
    /\ pc = "submit"
    /\ calls' = Append(calls, <<"submit_transfer", Len(tdata)>>)
    /\ wait' = w
    /\ max_attempts' = n
    /\ task' = "ACTIVE"
    /\ printed' = TRUE
    /\ IF w
       THEN /\ pc' = "wait_loop"
            /\ UNCHANGED exit
       ELSE Exit(ExitOk)
    /\ UNCHANGED <<envVars, runVars, actVars, transfers, tdata, attempts, done,
                   errored, relVars>>
    /\ Scheduler

\* Lines 608-611: tc.submit_transfer(tdata); without --wait the task id is
\* printed and the command ends.
Submit(w, n) ==
    /\ pc = "submit"
    /\ calls' = Append(calls, <<"submit_transfer", Len(tdata)>>)
    /\ wait' = w
    /\ max_attempts' = n
    /\ task' = "ACTIVE"
    /\ IF w
       THEN /\ pc' = "wait_loop"
            /\ UNCHANGED <<exit, printed>>
       ELSE /\ printed' = TRUE
            /\ Exit(ExitOk)
    /\ UNCHANGED <<envVars, runVars, actVars, transfers, tdata, attempts, done,
                   errored, relVars>>
    /\ Scheduler

\* ------------------------------------------------- wait_for_task_or_exit

\* Lines 843-848 with the exception taken for an answer: a call that raised
\* counts as done.
DoneAfter_RaiseIsDone(d, r) == r # "notdone"

\* Lines 843-848: done after the task_wait call that did r.
DoneAfter(d, r) == IF r = "done" THEN TRUE ELSE IF r = "notdone" THEN FALSE ELSE d

\* Line 848 as an assignment of this attempt's result: errored = (r raised).
ErroredAfter_LastOnly(e, r) == r = "error"

\* Lines 845-848: errored after the task_wait call that did r.
ErroredAfter(e, r) == e \/ r = "error"

\* Line 855 off by one: the loop gives up one attempt early.
AttemptsExhausted_Early(a, m) == a + 1 >= m

\* Line 855
AttemptsExhausted(a, m) == a >= m

\* Line 860
WaitExitCode(e) == IF ~e THEN WAIT_TASK_TIMEOUT ELSE WAIT_TASK_ERROR

\* What task_wait can do for a task in state ts: it returns True once the task
\* has ended, False at the timeout while it runs, or raises.
TaskWaitResults(ts) ==
    IF ts = "ACTIVE" THEN {"notdone", "error"} ELSE {"done", "error"}

\* Lines 850-851 with the task's completion state inspected: the function
\* returns only for a task that succeeded.
WaitSucceeds_IfTaskSucceeded(d, ts) == d /\ ts = "SUCCEEDED"

\* Lines 850-851: the function returns when done, whatever state ts the task
\* has ended in.
WaitSucceeds(d, ts) == d

\* Lines 840-861, one turn of the loop: one task_wait call.  When the function
\* returns, both callers print the task id (lines 620 and 672) and end.
WaitAttempt(r) ==
    /\ pc = "wait_loop"
    /\ r \in TaskWaitResults(task)
    /\ attempts' = attempts + 1
    /\ done' = DoneAfter(done, r)
    /\ errored' = ErroredAfter(errored, r)
    /\ calls' = Append(calls, <<"task_wait", r>>)
    /\ IF WaitSucceeds(done', task)
       THEN /\ printed' = TRUE
            /\ Exit(ExitOk)
       ELSE /\ printed' = printed
            /\ IF AttemptsExhausted(attempts', max_attempts)
               THEN Exit(WaitExitCode(errored'))
               ELSE UNCHANGED <<pc, exit>>
    /\ UNCHANGED <<envVars, runVars, actVars, transfers, tdata, wait,
                   max_attempts, task, relVars>>
    /\ Scheduler

\* -------------------------------------------------------------- release

\* get_globus_jobs(): the jobs of the queue, in the order release visits them.
GlobusJobs == [n \in 1 .. NumJobs |-> n]

\* Lines 727-737: the next job's attributes are collected; when there are
\* some, the transfer client is made and activate_endpoints_manually called.
RelScan ==
    /\ pc = "rel_scan"
    /\ LET m == ManualEndpoints(ad[GlobusJobs[ad_idx]]) IN
       /\ manual_endpoints' = m
       /\ IF Len(m) > 0
          THEN IF refresh_token
               THEN Goto(Step("man_info", DictKeys(m), <<>>, "running"))
               ELSE /\ Exit(AUTHORIZATION_ERROR)
                    /\ UNCHANGED <<todo, unactivated, i>>
          ELSE /\ pc' = "rel_release"
               /\ UNCHANGED <<todo, unactivated, i, exit>>
    /\ UNCHANGED <<envVars, runVars, endpoints, returned, xferVars, waitVars,
                   ad_idx, calls>>
    /\ Scheduler

\* Lines 739-740: every attribute of manual_endpoints is set to Undefined.
RECURSIVE ResetAll(_, _, _)
ResetAll(a, rec, keys) ==
    IF keys = <<>> THEN a
    ELSE ResetAll(SetJobAttr(a, rec, Head(keys), UndefinedText), rec, Tail(keys))

RECURSIVE ResetCalls(_, _, _)
ResetCalls(a, rec, keys) ==
    IF keys = <<>> THEN <<>>
    ELSE <<SetCall(a, rec, Head(keys), UndefinedText)>>
            \o ResetCalls(a, rec, Tail(keys))

\* The attributes release resets after activate_endpoints_manually returned.
KeysToReset(m) == DictValues(m)

RelReset ==
    /\ pc = "rel_reset"
    /\ LET j == GlobusJobs[ad_idx]
           keys == KeysToReset(manual_endpoints)
       IN /\ ad' = ResetAll(ad, j, keys)
          /\ calls' = calls \o ResetCalls(ad, j, keys)
    /\ pc' = "rel_release"
    /\ UNCHANGED <<status, runVars, actVars, xferVars, waitVars, relVars, exit>>
    /\ Scheduler

\* Lines 742-743: schedd.act(Release) for the job; then the next job, or the
\* end of the command.
RelRelease ==
    /\ pc = "rel_release"
    /\ calls' = Append(calls, <<"release", GlobusJobs[ad_idx]>>)
    /\ IF ad_idx < Len(GlobusJobs)
       THEN /\ ad_idx' = ad_idx + 1
            /\ pc' = "rel_scan"
            /\ exit' = exit
       ELSE /\ ad_idx' = ad_idx
            /\ Exit(ExitOk)
    /\ held' = [held EXCEPT ![GlobusJobs[ad_idx]] = FALSE]
    /\ UNCHANGED <<envVars, runVars, actVars, xferVars, waitVars, manual_endpoints>>

\* ---------------------------------------------------------- environment

\* The operator activates an endpoint in the browser (any time).
OperatorActivates(e) ==
    /\ status[e] # "ACTIVE"
    /\ status' = [status EXCEPT ![e] = "ACTIVE"]
    /\ UNCHANGED <<ad, held, runVars, pc, exit, actVars, xferVars, waitVars, relVars, calls>>

\* An activation expires.  Commands are short next to the lifetime of an
\* activation: the model lets activations expire between commands only.
Expires(e, st) ==
    /\ pc = "done"
    /\ status[e] = "ACTIVE"
    /\ st # "ACTIVE"
    /\ status' = [status EXCEPT ![e] = st]
    /\ UNCHANGED <<ad, held, runVars, pc, exit, actVars, xferVars, waitVars, relVars, calls>>

\* The task a command waits for ends, in one of the two ways.
TaskEnds(ts) ==
    /\ pc = "wait_loop"
    /\ task = "ACTIVE"
    /\ ts # "ACTIVE"
    /\ task' = ts
    /\ UNCHANGED <<envVars, held, runVars, pc, exit, actVars, xferVars,
                   max_attempts, attempts, done, errored, relVars, calls>>

\* ------------------------------------------------------- specifications

\* The steps of activate_endpoints_or_exit and activate_endpoints_manually.
Activation ==
    \/ \E ok \in BOOLEAN : ActQuery(ok)
    \/ ActAuto
    \/ \E ok \in BOOLEAN : ManInfo(ok)
    \/ \E ok \in BOOLEAN : ManCheck(ok)
    \/ \E key \in {"enter", "ctrl_c"} : ManPrompt(key)
    \/ \E ok \in BOOLEAN : ActExpiry(ok)

Environment ==
    \/ \E e \in Endpoints : OperatorActivates(e)
    \/ \E e \in Endpoints, st \in Statuses : Expires(e, st)

\* The task wait orchestrator alone: the wait command, any --attempts.
NextWait ==
    \/ \E inter \in BOOLEAN, tok \in BOOLEAN, n \in AttemptChoices, ts \in TaskStates :
          StartWait(inter, tok, n, ts)
    \/ GetClient
    \/ \E r \in PollResults : WaitAttempt(r)
    \/ \E ts \in TaskStates : TaskEnds(ts)

SpecWait == Init /\ [][NextWait]_vars

\* The commands an operator types in a shell, with or without a terminal:
\* transfer (any endpoints, any list of specifications, no --wait) and activate.
NextShell ==
    \/ \E inter \in BOOLEAN, tok \in BOOLEAN, src \in Endpoints, dst \in Endpoints :
          StartTransfer(NoJob, inter, tok, src, dst)
    \/ \E inter \in BOOLEAN, tok \in BOOLEAN, e \in Endpoints :
          StartActivate(inter, tok, e)
    \/ GetClient
    \/ \E ts \in TransferLists : Parse(ts)
    \/ Activation
    \/ Submit(FALSE, 1)
    \/ Environment

SpecShell == Init /\ [][NextShell]_vars

\* The transfer command typed in a shell with one file to copy, with or without
\* --wait and with any --attempts.
NextTransfer ==
    \/ \E inter \in BOOLEAN, tok \in BOOLEAN, src \in Endpoints, dst \in Endpoints :
          StartTransfer(NoJob, inter, tok, src, dst)
    \/ GetClient
    \/ Parse(<<SpecFile>>)
    \/ Activation
    \/ \E w \in BOOLEAN, n \in AttemptChoices : Submit(w, n)
    \/ \E r \in PollResults : WaitAttempt(r)
    \/ \E ts \in TaskStates : TaskEnds(ts)
    \/ Environment

SpecTransfer == Init /\ [][NextTransfer]_vars

\* The transfer jobs of the queue (each runs its transfer command without a
\* terminal, as often as the scheduler starts it) and the release command.
NextJobs ==
    \/ \E s \in Jobs, tok \in BOOLEAN :
          StartTransfer(s, FALSE, tok, JobEndpoints(s)[1], JobEndpoints(s)[2])
    \/ \E inter \in BOOLEAN, tok \in BOOLEAN : StartRelease(inter, tok)
    \/ GetClient
    \/ Parse(<<SpecFile>>)
    \/ Activation
    \/ Submit(FALSE, 1)
    \/ RelScan
    \/ RelReset
    \/ RelRelease
    \/ Environment

SpecJobs == Init /\ [][NextJobs]_vars

\* ------------------------------------------------------------- the log

\* The calls of one kind, in the order they were made.
CallsOf(kind) == SelectSeq(calls, LAMBDA c : c[1] = kind)

\* What each task_wait call of the running wait did.
Polls == [n \in 1 .. Len(CallsOf("task_wait")) |-> CallsOf("task_wait")[n][2]]

Submits == Len(CallsOf("submit_transfer"))

\* Every endpoint given to activate_endpoints_or_exit is ACTIVE.
AllActive == \A k \in 1 .. Len(endpoints) : IsActive(status[endpoints[k]])

\* The exit codes a transfer or activate command can end with before it calls
\* activate_endpoints_or_exit.
BeforeActivation ==
    {AUTHORIZATION_ERROR, INVALID_TRANSFER_SPECIFICATION_ERROR, UnhandledException}

\* activate_endpoints_or_exit was called and did not return.
ActivationEnded ==
    /\ pc = "done"
    /\ cmd \in {"transfer", "activate"}
    /\ ~returned
    /\ exit \notin BeforeActivation

\* ------------------------------------------------------------------ C1

\* C1 as stated: whenever activate_endpoints_or_exit ends without returning
\* success (and every endpoint lookup worked), the command has failed with
\* ENDPOINT_ACTIVATION_ERROR.
C1_FailsWithActivationError ==
    (ActivationEnded /\ exit # ENDPOINT_INFO_ERROR) => exit = ENDPOINT_ACTIVATION_ERROR

\* C1, amended: activate_endpoints_or_exit returns success only when every
\* endpoint of its list is ACTIVE as it returns (an endpoint whose
\* auto-activation was not rejected included).  When it ends otherwise, the
\* command has failed with ENDPOINT_ACTIVATION_ERROR, which happens only
\* without a terminal and names at least one endpoint, or it was ended by the
\* operator's abort at a prompt, which happens only with a terminal, or an
\* endpoint lookup failed.
C1_ActivationOutcome ==
    /\ [][(returned' /\ ~returned) => AllActive']_vars
    /\ [](ActivationEnded =>
            /\ exit \in {ENDPOINT_ACTIVATION_ERROR, Aborted, ENDPOINT_INFO_ERROR}
            /\ exit = ENDPOINT_ACTIVATION_ERROR => ~interactive /\ Len(unactivated) > 0
            /\ exit = Aborted => interactive)

\* Activation has returned success for two endpoints, one of them through an
\* auto-activation call that was not rejected.
C1_Witness ==
    /\ returned
    /\ pc = "submit"
    /\ Len(endpoints) = 2
    /\ Len(CallsOf("endpoint_autoactivate")) > 0
    /\ AllActive

\* ------------------------------------------------------------------ C2

\* C2: a run of the transfer command calls submit_transfer at most once, and
\* only after activate_endpoints_or_exit has returned success for the source
\* and the destination; a run that ended with ENDPOINT_ACTIVATION_ERROR or by
\* the operator's abort has made no submission.
C2_SubmitAfterActivation ==
    /\ Submits <= 1
    /\ Submits = 1 => cmd = "transfer" /\ returned /\ Len(endpoints) = 2
    /\ exit \in {ENDPOINT_ACTIVATION_ERROR, Aborted} => Submits = 0

\* A transfer was submitted after an auto-activation, and the command waits.
C2_Witness ==
    /\ Submits = 1
    /\ pc = "wait_loop"
    /\ Len(CallsOf("endpoint_autoactivate")) > 0

\* ------------------------------------------------------------------ C3

\* The wait loop has ended without a task_wait call that returned True.
WaitGaveUp ==
    /\ pc = "done"
    /\ Len(Polls) > 0
    /\ \A n \in 1 .. Len(Polls) : Polls[n] # "done"

\* C3: when the wait loop has made all its attempts and none reported done,
\* the command fails with WAIT_TASK_TIMEOUT if no task_wait call raised, and
\* with WAIT_TASK_ERROR if one did, whatever its position; a wait that has
\* ended ends in success or in one of these two.
C3_WaitFailure ==
    /\ WaitGaveUp =>
          /\ Len(Polls) >= max_attempts
          /\ max_attempts >= 1 => Len(Polls) = max_attempts
          /\ exit = IF \E n \in 1 .. Len(Polls) : Polls[n] = "error"
                    THEN WAIT_TASK_ERROR ELSE WAIT_TASK_TIMEOUT
    /\ (pc = "done" /\ Len(Polls) > 0) =>
          exit \in {ExitOk, WAIT_TASK_TIMEOUT, WAIT_TASK_ERROR}

\* Three attempts: the first raised, the other two reported not done.
C3_Witness ==
    /\ WaitGaveUp
    /\ max_attempts = 3
    /\ Polls = <<"error", "notdone", "notdone">>
    /\ exit = WAIT_TASK_ERROR

\* ------------------------------------------------------------------ C4

\* C4: with max_attempts >= 1, no task_wait call is made after one that
\* reported done; the wait succeeds with that call; and as long as every call
\* has reported not done and fewer than max_attempts were made, the loop goes
\* on.  So when calls 1..k-1 report not done and call k <= max_attempts reports
\* done, the wait succeeds after exactly k calls.
C4_SucceedsAtFirstDone ==
    max_attempts >= 1 =>
        /\ \A n \in 1 .. Len(Polls) - 1 : Polls[n] # "done"
        /\ (Len(Polls) > 0 /\ Polls[Len(Polls)] = "done") =>
              pc = "done" /\ exit = ExitOk /\ attempts = Len(Polls)
        /\ (cmd = "wait" /\ exit # AUTHORIZATION_ERROR /\ Len(Polls) < max_attempts
              /\ \A n \in 1 .. Len(Polls) : Polls[n] = "notdone") =>
              pc \in {"get_client", "wait_loop"}

\* max_attempts = 3, not done twice, then done: success after three calls.
C4_Witness ==
    /\ cmd = "wait"
    /\ max_attempts = 3
    /\ Polls = <<"notdone", "notdone", "done">>
    /\ exit = ExitOk

\* ------------------------------------------------------------------ C5

\* The specification is source:destination, both paths not empty, and exactly
\* one of them ends in "/".
MixedSlash(t) ==
    LET parts == SplitColon(t) IN
    /\ Len(parts) = 2
    /\ Len(parts[1]) > 0
    /\ Len(parts[2]) > 0
    /\ (parts[1][Len(parts[1])] = "/") # (parts[2][Len(parts[2])] = "/")

\* The specification is source:destination, both paths not empty, and both or
\* neither of them end in "/".
SameSlash(t) ==
    LET parts == SplitColon(t) IN
    /\ Len(parts) = 2
    /\ Len(parts[1]) > 0
    /\ Len(parts[2]) > 0
    /\ (parts[1][Len(parts[1])] = "/") = (parts[2][Len(parts[2])] = "/")

\* C5 as stated: when some specification of the list has exactly one path
\* ending in "/", the transfer command fails with
\* INVALID_TRANSFER_SPECIFICATION_ERROR and has made no call at all; a list of
\* specifications that all have both or neither path ending in "/" is not
\* rejected.
C5_MixedSpecRejected ==
    cmd = "transfer" =>
        /\ (\E k \in 1 .. Len(transfers) : MixedSlash(transfers[k])) =>
              /\ pc = "done"
              /\ exit = INVALID_TRANSFER_SPECIFICATION_ERROR
              /\ calls = <<>>
        /\ (\A k \in 1 .. Len(transfers) : SameSlash(transfers[k])) =>
              exit \notin {INVALID_TRANSFER_SPECIFICATION_ERROR, UnhandledException}

\* ------------------------------------------------------------------ C6

\* activate_endpoints_manually, called without a terminal, has just returned:
\* todo is its argument and unactivated its result.
ManualReturned ==
    /\ ~interactive
    /\ \/ cmd \in {"transfer", "activate"} /\ pc = "done"
          /\ exit = ENDPOINT_ACTIVATION_ERROR
       \/ cmd = "release" /\ pc = "rel_reset"

\* The last n calls of the process.
LastCalls(n) == SubSeq(calls, Len(calls) - n + 1, Len(calls))

\* C6: one call of activate_endpoints_manually without a terminal, on N
\* endpoints, makes exactly N set_job_attr calls, on the process's own job
\* record, with N different attribute indices, the k-th holding the k-th
\* endpoint, and returns the N endpoints.
C6_ManualWritesN ==
    ManualReturned =>
        LET N == Len(todo)
            W == LastCalls(N)
        IN /\ N >= 1
           /\ Len(calls) >= N
           /\ \A k \in 1 .. N :
                 /\ W[k][1] = "set_job_attr"
                 /\ W[k][2] = self
                 /\ W[k][4] = todo[k]
           /\ \A k \in 1 .. N, m \in 1 .. N : k # m => W[k][3] # W[m][3]
           /\ Len(calls) > N => calls[Len(calls) - N][1] # "set_job_attr"
           /\ unactivated = todo
           /\ self \in Jobs =>
                 \A k \in 1 .. N :
                    /\ W[k][3] \in DOMAIN ad[self]
                    /\ ClassAdEval(ad[self][W[k][3]]) = todo[k]

\* A transfer job with two different endpoints that both need manual
\* activation has written its two attributes.
C6_Witness ==
    /\ ManualReturned
    /\ self \in Jobs
    /\ Len(todo) = 2
    /\ todo[1] # todo[2]

\* ------------------------------------------------------------------ C7

\* The call wrote an endpoint identifier into an activation-required attribute.
IsRequirementWrite(c) == c[1] = "set_job_attr" /\ c[4] \in Endpoints

\* C7 as stated: no transfer job ever writes its activation-required
\* attribute over one that holds an endpoint identifier.
C7_NoOverwrite ==
    cmd = "transfer" =>
        \A n \in 1 .. Len(calls) :
            IsRequirementWrite(calls[n]) => calls[n][5] \notin Endpoints

\* ------------------------------------------------------------------ C8

\* The release command has ended.
ReleaseOver == cmd = "release" /\ pc = "done"

\* The scheduler was told to release job j by the running release command.
Released(j) == \E n \in 1 .. Len(calls) : calls[n] = <<"release", j>>

\* C8 as stated: a release command that has ended (with a credential, and
\* with every endpoint lookup working) has told the scheduler to release every
\* job, whether or not the endpoints of its attributes became ACTIVE.
C8_EveryJobReleased ==
    (ReleaseOver /\ exit \notin {AUTHORIZATION_ERROR, ENDPOINT_INFO_ERROR}) =>
        \A j \in Jobs : Released(j)

\* ------------------------------------------------------------------ C9

\* The call set an attribute that held an endpoint identifier to Undefined.
IsReset(c) == c[1] = "set_job_attr" /\ c[4] = UndefinedValue /\ c[5] \in Endpoints

\* C9 as stated: release sets an attribute to Undefined only when the endpoint
\* it named is ACTIVE; and when release is done with a job, each endpoint of
\* manual_endpoints that is still not ACTIVE is still in its attribute, and no
\* attribute was written for it.
C9_ResetOnlyActive ==
    (cmd = "release" /\ pc # "done") =>
        /\ \A n \in 1 .. Len(calls) :
              IsReset(calls[n]) => IsActive(status[calls[n][5]])
        /\ pc = "rel_release" =>
              \A n \in 1 .. Len(manual_endpoints) :
                 LET e == manual_endpoints[n][1]
                     k == manual_endpoints[n][2]
                 IN ~IsActive(status[e]) =>
                       /\ ClassAdEval(ad[GlobusJobs[ad_idx]][k]) = e
                       /\ \A c \in 1 .. Len(calls) :
                             ~(IsRequirementWrite(calls[c]) /\ calls[c][4] = e)

\* ----------------------------------------------------------------- C10

\* C10 as stated: a release command that has ended has exit code 0 and has
\* told the scheduler to release every job.
C10_ReleaseAlwaysCompletes ==
    ReleaseOver => exit = ExitOk /\ \A j \in Jobs : Released(j)

\* ----------------------------------------------------------------- C11

\* The calls of the activation fallback chain: auto-activation calls, prompts
\* and attribute writes.
ChainCalls == SelectSeq(calls, LAMBDA c : c[1] \in {"endpoint_autoactivate", "confirm", "set_job_attr"})

\* The process of a transfer or activate command takes a step.
ProcessStep == cmd \in {"transfer", "activate"} /\ pc' # pc

\* The initial status query is at its last endpoint, and this endpoint and
\* every endpoint before it report ACTIVE.
QueryFindsAllActive ==
    /\ pc = "act_query"
    /\ i = Len(endpoints)
    /\ unactivated = <<>>
    /\ IsActive(status[endpoints[i]])

\* Activation is at the expiry report of line 791 and the process has made no
\* auto-activation call, shown no prompt and written no attribute.
QuietlyActive == pc = "act_expiry" /\ ChainCalls = <<>>

\* C11: when every endpoint of the list reports ACTIVE at the initial status
\* query, the process goes from the query straight to the expiry report, and
\* from there activate_endpoints_or_exit returns success, with no
\* endpoint_autoactivate call, no prompt and no set_job_attr call made (unless
\* an endpoint lookup fails).
C11_AllActiveNoCalls ==
    /\ [][(QueryFindsAllActive /\ ProcessStep) =>
             QuietlyActive' \/ exit' = ENDPOINT_INFO_ERROR]_vars
    /\ [][(QuietlyActive /\ ProcessStep) =>
             \/ returned' /\ exit' \in {"running", ExitOk} /\ ChainCalls' = <<>>
             \/ exit' = ENDPOINT_INFO_ERROR]_vars

\* Activation of two endpoints that were both ACTIVE has returned success
\* without a call.
C11_Witness ==
    /\ cmd = "transfer"
    /\ pc = "submit"
    /\ returned
    /\ Len(endpoints) = 2
    /\ endpoints[1] # endpoints[2]
    /\ calls = <<>>

\* ----------------------------------------------------------------- C12

\* The auto-activation calls that were made, as the list of their endpoints.
AutoCalls ==
    [n \in 1 .. Len(CallsOf("endpoint_autoactivate")) |->
        CallsOf("endpoint_autoactivate")[n][2]]

\* activate_endpoints_automatically is at its last endpoint; the service has
\* rejected none of the calls before, and will not reject this one.
AutoSucceedsForAll ==
    /\ pc = "act_auto"
    /\ i = Len(todo)
    /\ unactivated = <<>>
    /\ AutoActivateCode(status[todo[i]]) # "AutoActivationFailed"

\* Activation is at the expiry report of line 791 and the process has made its
\* auto-activation calls, shown no prompt and written no attribute.
AutoOnly == pc = "act_expiry" /\ ChainCalls = CallsOf("endpoint_autoactivate")

\* C12: the list given to activate_endpoints_automatically holds the entries
\* of the endpoint list that did not report ACTIVE.  When the service rejects
\* none of the auto-activation calls, the process has made exactly one call
\* for each entry of that list, in order, and goes straight to the expiry
\* report; from there activate_endpoints_or_exit returns success with no prompt
\* shown and no set_job_attr call made (unless an endpoint lookup fails), with
\* or without a terminal.
C12_AutoSuccessNoManual ==
    /\ [][(AutoSucceedsForAll /\ ProcessStep) =>
             /\ AutoOnly'
             /\ AutoCalls' = todo
             /\ Len(todo) >= 1
             /\ Len(todo) <= Len(endpoints)]_vars
    /\ [][(AutoOnly /\ ProcessStep) =>
             \/ /\ returned'
                /\ exit' \in {"running", ExitOk}
                /\ calls' = calls
             \/ exit' = ENDPOINT_INFO_ERROR]_vars

\* Without a terminal, activation of two different endpoints has returned
\* success after one auto-activation call for each.
C12_Witness ==
    /\ cmd = "transfer"
    /\ ~interactive
    /\ pc = "submit"
    /\ returned
    /\ Len(AutoCalls) = 2
    /\ AutoCalls[1] # AutoCalls[2]
    /\ AutoCalls = endpoints

\* ----------------------------------------------------------------- C13

\* No activation-required attribute of job j names an endpoint.
JobCleared(j) == \A k \in DOMAIN ad[j] : ClassAdEval(ad[j][k]) = UndefinedValue

\* A release command run with a terminal has completed: the operator has
\* activated every endpoint it prompted for.
ResumerCompleted == ReleaseOver /\ interactive /\ exit = ExitOk

\* The process of a transfer job has ended.
JobRunOver == cmd = "transfer" /\ self \in Jobs /\ pc = "done"

\* C13 as stated: a transfer job that failed for want of manual activation has
\* written its attributes and is held; when a release command run with a
\* terminal has completed, every activation-required attribute of every job is
\* cleared and every job is released; and a run of the job that then succeeds
\* has written no attribute and has submitted the transfer.
C13_ResumableLifecycle ==
    /\ (JobRunOver /\ exit = ENDPOINT_ACTIVATION_ERROR) =>
          /\ held[self]
          /\ Len(unactivated) >= 1
          /\ \A n \in 1 .. Len(unactivated) :
                \E k \in DOMAIN ad[self] : ClassAdEval(ad[self][k]) = unactivated[n]
    /\ ResumerCompleted =>
          \A j \in Jobs : JobCleared(j) /\ Released(j) /\ ~held[j]
    /\ (JobRunOver /\ exit = ExitOk) =>
          /\ Submits = 1
          /\ CallsOf("set_job_attr") = <<>>

\* ----------------------------------------------------------------- C14

\* C14 as stated: when the list of the transfer command holds a specification
\* that is not a pair source:destination of two paths that are not empty and
\* that both or neither end in "/", the command fails with
\* INVALID_TRANSFER_SPECIFICATION_ERROR; no transfer command ends by an
\* exception that nothing handles.
C14_MalformedSpecRejected ==
    cmd = "transfer" =>
        /\ (\E k \in 1 .. Len(transfers) : ~SameSlash(transfers[k])) =>
              pc = "done" /\ exit = INVALID_TRANSFER_SPECIFICATION_ERROR
        /\ exit # UnhandledException

\* ----------------------------------------------------------------- C15

SomePoll(r) == \E n \in 1 .. Len(Polls) : Polls[n] = r

\* The wait loop has ended (by return or by sys.exit).
WaitOver == pc = "done" /\ Len(Polls) > 0

\* C15: a task_wait call that raises does not end the wait while fewer than
\* max_attempts calls were made: the loop is still running and the next call
\* can be made.  A call that reports done ends the wait in success, whatever
\* was raised before.  The outcome of a wait that has ended is a function of
\* whether a call reported done and whether a call raised: success, else
\* WAIT_TASK_ERROR, else WAIT_TASK_TIMEOUT; and it ended without a done only
\* with its attempts exhausted.
C15_TransientErrorTolerated ==
    /\ (Len(Polls) > 0 /\ Polls[Len(Polls)] = "error" /\ Len(Polls) < max_attempts) =>
          pc = "wait_loop" /\ exit = "running"
    /\ (Len(Polls) > 0 /\ Polls[Len(Polls)] = "done") =>
          pc = "done" /\ exit = ExitOk
    /\ WaitOver =>
          /\ exit = IF SomePoll("done") THEN ExitOk
                    ELSE IF SomePoll("error") THEN WAIT_TASK_ERROR
                    ELSE WAIT_TASK_TIMEOUT
          /\ ~SomePoll("done") => Len(Polls) >= max_attempts

\* The first call raised, the second reported not done, the third done: the
\* wait has succeeded.
C15_Witness ==
    /\ cmd = "wait"
    /\ Polls = <<"error", "notdone", "done">>
    /\ exit = ExitOk

\* ----------------------------------------------------------------- C16

\* C16 as stated: for every value of --attempts, zero and negative values
\* included, the wait loop makes at most max_attempts task_wait calls (and so
\* ends after at most that many turns); for a negative value that is no call.
C16_AtMostMaxAttemptsPolls ==
    cmd = "wait" => Len(Polls) <= (IF max_attempts >= 0 THEN max_attempts ELSE 0)

\* ----------------------------------------------------------------- C17

\* activate_endpoints_manually runs with a terminal.
ManualInteractive == interactive /\ pc \in {"man_info", "man_check", "man_prompt"}

\* The process was prompted about endpoint e.
Prompted(e) == \E n \in 1 .. Len(calls) : calls[n] = <<"confirm", e>>

\* C17: with a terminal, the handling of an endpoint by
\* activate_endpoints_manually starts with a status query; a prompt is shown
\* only after a query that did not report the endpoint ACTIVE; after each
\* prompt the process either queries the status again (the operator pressed
\* ENTER) or is ended as aborted (ctrl-c); the process leaves the endpoint only
\* at a query that reports it ACTIVE (or when a lookup fails); and no endpoint
\* is ever put in the list of unresolved endpoints, so a command with a
\* terminal never fails with ENDPOINT_ACTIVATION_ERROR.
C17_InteractiveManualLoop ==
    /\ [][(interactive /\ pc = "man_info" /\ pc' # pc) =>
             pc' = "man_check" \/ exit' = ENDPOINT_INFO_ERROR]_vars
    /\ [][(pc' = "man_prompt" /\ pc # "man_prompt") =>
             interactive /\ pc = "man_check" /\ ~IsActive(status[todo[i]])]_vars
    /\ [][(pc = "man_prompt" /\ pc' # pc) =>
             \/ pc' = "man_check" /\ i' = i /\ todo' = todo
             \/ pc' = "done" /\ exit' = Aborted]_vars
    /\ [][(pc = "man_check" /\ pc' \notin {"man_check", "man_prompt"}) =>
             IsActive(status[todo[i]]) \/ exit' = ENDPOINT_INFO_ERROR]_vars
    /\ [](ManualInteractive => unactivated = <<>>)
    /\ [](interactive => exit # ENDPOINT_ACTIVATION_ERROR)

\* With a terminal, the operator was prompted about both endpoints of a
\* transfer, and activation has returned.
C17_Witness ==
    /\ interactive
    /\ cmd = "transfer"
    /\ returned
    /\ Prompted("e1")
    /\ Prompted("e2")

\* ----------------------------------------------------------------- C18

\* The endpoints written into activation-required attributes, in order.
Written ==
    [n \in 1 .. Len(CallsOf("set_job_attr")) |-> CallsOf("set_job_attr")[n][4]]

\* Every auto-activation call of the process was made before its first
\* attribute write, and it made no other call.
AutoThenWrites ==
    /\ Len(calls) = Len(AutoCalls) + Len(Written)
    /\ \A n \in 1 .. Len(AutoCalls) : calls[n][1] = "endpoint_autoactivate"

\* The command has failed with ENDPOINT_ACTIVATION_ERROR.
ActivationErrorRaised ==
    /\ cmd \in {"transfer", "activate"}
    /\ pc = "done"
    /\ exit = ENDPOINT_ACTIVATION_ERROR

\* The service rejects the auto-activation of the endpoint the loop is at.
Rejected == AutoActivateCode(status[todo[i]]) = "AutoActivationFailed"

\* C18: activate_endpoints_automatically never ends the command: it makes its
\* call for every entry of its list, keeps exactly the entries the service
\* rejected, and hands them, when there are some, to
\* activate_endpoints_manually.  When the command has failed with
\* ENDPOINT_ACTIVATION_ERROR it runs without a terminal, the k >= 1 endpoints
\* the message names are those handed over, an attribute holding each of them
\* was written after the last auto-activation call, and as it fails every
\* entry of the endpoint list for which no auto-activation call was made is
\* ACTIVE.
C18_NeverFailFast ==
    /\ [][(pc = "act_auto" /\ pc' # pc) =>
             LET u == IF Rejected THEN Append(unactivated, todo[i]) ELSE unactivated
             IN /\ i = Len(todo)
                /\ exit' = "running"
                /\ AutoCalls' = todo
                /\ IF u = <<>> THEN pc' = "act_expiry"
                   ELSE pc' = "man_info" /\ todo' = u]_vars
    /\ [][(pc = "act_auto" /\ pc' = pc /\ i' # i) =>
             unactivated' = IF Rejected THEN Append(unactivated, todo[i])
                            ELSE unactivated]_vars
    /\ [](ActivationErrorRaised =>
             /\ ~interactive
             /\ Len(todo) >= 1
             /\ unactivated = todo
             /\ Written = todo
             /\ AutoThenWrites
             /\ \A n \in 1 .. Len(todo) : \E m \in 1 .. Len(AutoCalls) : AutoCalls[m] = todo[n])
    /\ [][(pc # "done" /\ ActivationErrorRaised') =>
             \A n \in 1 .. Len(endpoints) :
                (\A m \in 1 .. Len(AutoCalls) : AutoCalls[m] # endpoints[n]) =>
                    IsActive(status[endpoints[n]])]_vars

\* A transfer job has failed naming one endpoint, after auto-activation calls
\* for two different endpoints, of which the first was rejected.
C18_Witness ==
    /\ ActivationErrorRaised
    /\ self \in Jobs
    /\ Len(AutoCalls) = 2
    /\ AutoCalls[1] # AutoCalls[2]
    /\ unactivated = <<AutoCalls[1]>>
    /\ Written = unactivated

\* ----------------------------------------------------------------- C19

\* C19 as stated: when a release command run with a terminal has released a
\* job (every endpoint named by an attribute of the job was seen ACTIVE before
\* that), every activation-required attribute of the job is Undefined, however
\* many attributes the job has and whether or not two of them named the same
\* endpoint.
C19_AllAttributesCleared ==
    \A j \in Jobs :
        (cmd = "release" /\ interactive /\ Released(j)) => JobCleared(j)

\* ----------------------------------------------------------------- C20

\* The job the loop of the release command is at.
Job == GlobusJobs[ad_idx]

\* The release command is at the start of the turn of a job that has no
\* activation-required attribute or only attributes that are Undefined.
AtClearedJob == cmd = "release" /\ pc = "rel_scan" /\ JobCleared(Job)

\* The release command wrote attribute c[3] of job c[2].
IsReleaseWrite(c) == c[1] = "set_job_attr" /\ c[2] \in Jobs

\* C20: an attribute the release command has written reads back as Undefined
\* and is not in the mapping built from the job's attributes.  At the turn of
\* a job whose attributes are all Undefined (or that has none) the release
\* command goes straight to the release of the job: it makes no call to the
\* transfer service (it needs no credential), shows no prompt and writes no
\* attribute; then it tells the scheduler to release the job, which leaves the
\* hold, and the job's attributes are as they were.
C20_ResumerIdempotent ==
    /\ [](cmd = "release" =>
            \A n \in 1 .. Len(calls) :
               IsReleaseWrite(calls[n]) =>
                  LET j == calls[n][2]
                      k == calls[n][3]
                  IN /\ k \in DOMAIN ad[j]
                     /\ ClassAdEval(ad[j][k]) = UndefinedValue
                     /\ \A m \in 1 .. Len(ManualEndpoints(ad[j])) :
                           ManualEndpoints(ad[j])[m][2] # k)
    /\ [](AtClearedJob => ManualEndpoints(ad[Job]) = <<>>)
    /\ [][(AtClearedJob /\ pc' # pc) =>
             /\ pc' = "rel_release"
             /\ exit' = "running"
             /\ calls' = calls
             /\ ad' = ad
             /\ ad_idx' = ad_idx]_vars
    /\ [][(pc = "rel_release" /\ pc' # pc) =>
             /\ calls' = Append(calls, <<"release", Job>>)
             /\ ~held'[Job]
             /\ ad' = ad]_vars

\* A release command has reset the attributes of job 1; the next release
\* command, run without a credential, has ended in success: it has released
\* both jobs and made no other call.
C20_Witness ==
    /\ ReleaseOver
    /\ ~refresh_token
    /\ exit = ExitOk
    /\ calls = <<<<"release", 1>>, <<"release", 2>>>>
    /\ DOMAIN ad[1] = {0, 1}
    /\ JobCleared(1)

\* ----------------------------------------------------------------- C21

\* The attributes of job j that differ between two values of ad.
Changed(a, b, j) ==
    {k \in DOMAIN b[j] : k \notin DOMAIN a[j] \/ a[j][k] # b[j][k]}

\* C21: every activation-required attribute of every job record is the text
\* Undefined or reads as the identifier of one endpoint of the job's command,
\* which is what was passed to activate_endpoints_manually.  An attribute is
\* written only by activate_endpoints_manually running without a terminal as
\* that job, which writes the endpoint it is at; and an attribute changes to
\* Undefined only in the reset of the release command, on the job it is at.
C21_AttributeInvariant ==
    /\ [](\A j \in Jobs : \A k \in DOMAIN ad[j] :
            \/ ad[j][k] = UndefinedText
            \/ \E n \in 1 .. 2 : ClassAdEval(ad[j][k]) = JobEndpoints(j)[n])
    /\ [][\A j \in Jobs : \A k \in Changed(ad, ad', j) :
            IF ad'[j][k] = UndefinedText
            THEN cmd = "release" /\ pc = "rel_reset" /\ j = GlobusJobs[ad_idx]
            ELSE /\ pc = "man_info"
                 /\ ~interactive
                 /\ j = self
                 /\ ClassAdEval(ad'[j][k]) = todo[i]]_vars
    /\ [][\A j \in Jobs : DOMAIN ad[j] \subseteq DOMAIN ad'[j]]_vars

\* A job record with one attribute that was reset and one that names an
\* endpoint still to be activated.
C21_Witness ==
    \E j \in Jobs : \E k, m \in DOMAIN ad[j] :
        /\ ad[j][k] = UndefinedText
        /\ ClassAdEval(ad[j][m]) \in Endpoints
        /\ held[j]

\* ----------------------------------------------------------------- C22

\* The step is a task_wait call of the wait loop.
PollStep == pc = "wait_loop" /\ Len(Polls') = Len(Polls) + 1

\* The result of the last task_wait call.
LastPoll == Polls[Len(Polls)]

\* What a wait command shows of its run: where it is, its exit code, and
\* whether it has printed the task id.
Outcome == <<pc, exit, printed>>

\* The outcome of the wait after a task_wait call with result r, from the
\* number of calls made before, whether one of them raised, and max_attempts.
OutcomeAfter(n, e, m, p, r) ==
    IF r = "done" THEN <<"done", ExitOk, TRUE>>
    ELSE IF n + 1 < m THEN <<"wait_loop", "running", p>>
    ELSE IF e \/ r = "error" THEN <<"done", WAIT_TASK_ERROR, p>>
    ELSE <<"done", WAIT_TASK_TIMEOUT, p>>

\* C22: a task_wait call that reports done ends the wait in success, whether
\* the task has SUCCEEDED or FAILED.  The service gives the same answers for a
\* task that has succeeded and for one that has failed, and each turn of the
\* loop takes the wait from its state and the call's result to the next state
\* without regard to the task's completion state: so two runs that differ only
\* in that state make the same calls and end alike.
C22_OutcomeIgnoresTaskResult ==
    /\ []((Len(Polls) > 0 /\ LastPoll = "done") =>
            /\ task \in {"SUCCEEDED", "FAILED"}
            /\ pc = "done"
            /\ exit = ExitOk)
    /\ [](TaskWaitResults("SUCCEEDED") = TaskWaitResults("FAILED"))
    /\ [][PollStep =>
            /\ Outcome' = OutcomeAfter(Len(Polls), errored, max_attempts, printed, LastPoll')
            /\ attempts' = Len(Polls')
            /\ errored' = (errored \/ LastPoll' = "error")
            /\ task' = task]_vars

\* The task has FAILED; the wait command's second call reported done and the
\* command has ended in success.
C22_Witness ==
    /\ cmd = "wait"
    /\ task = "FAILED"
    /\ Polls = <<"notdone", "done">>
    /\ exit = ExitOk
    /\ printed

\* ----------------------------------------------------------------- C23

\* The transfer command has ended.
TransferOver == cmd = "transfer" /\ pc = "done"

\* C23: a transfer command that has ended has printed the task id if and only
\* if its exit code is 0, and while it runs it has printed nothing: the id is
\* the last thing it does.  With --wait the id is printed only after a
\* task_wait call that reported done.  When the wait has ended in
\* WAIT_TASK_TIMEOUT or WAIT_TASK_ERROR the transfer was submitted, the command
\* has made no call but submit_transfer and task_wait (none that cancels the
\* task), and the id is not printed.
C23_PrintedIffExitZero ==
    cmd = "transfer" =>
        /\ pc = "done" => (printed <=> exit = ExitOk)
        /\ pc # "done" => ~printed
        /\ printed => Submits = 1
        /\ (printed /\ wait) => Len(Polls) > 0 /\ LastPoll = "done"
        /\ (pc = "done" /\ exit \in {WAIT_TASK_TIMEOUT, WAIT_TASK_ERROR}) =>
              /\ wait
              /\ Submits = 1
              /\ ~printed
              /\ \A n \in 1 .. Len(calls) :
                    calls[n][1] \in {"endpoint_autoactivate", "confirm", "set_job_attr",
                                     "submit_transfer", "task_wait"}
              /\ calls[Len(calls) - Len(Polls)][1] = "submit_transfer"

\* A transfer command with --wait has given up after two task_wait calls: the
\* transfer is submitted and the id is not printed.
C23_Witness ==
    /\ TransferOver
    /\ wait
    /\ exit = WAIT_TASK_TIMEOUT
    /\ Len(Polls) = 2
    /\ Submits = 1
    /\ ~printed

====
